---- MODULE Spec2Model ----
(***************************************************************************)
(* Model of the Steam synchronisation service (src/src/services/steam.ts): *)
(* the schema/progress merge, the achievement and game syncs that persist  *)
(* their results, vanity-name resolution, and the configuration resolver.  *)
(***************************************************************************)
EXTENDS Integers, Sequences, FiniteSets, TLC

VARIABLES
    schemaAchievements,  \* argument of mergeSchemaAndPlayerAchievements
    playerAchievements,  \* argument of mergeSchemaAndPlayerAchievements
    mergeAppId,          \* argument of mergeSchemaAndPlayerAchievements
    merged,              \* value returned by mergeSchemaAndPlayerAchievements
    mpc,                 \* "start" before the call, "done" after it
    achievements,        \* the achievements table, rows in rowid order
    games,               \* the games table, rows in rowid order
    keyScope,            \* what the achievements key spans: "game" or "global"
    pc,                  \* "idle", or the operation in flight
    callAppId,           \* appId argument of the getAchievements call
    schemaFetched,       \* what fetchJson(schemaUrl) settled to
    playerFetched,       \* what fetchJson(playerUrl) settled to
    schemaResult,        \* what the schema promise of Promise.all settled to
    playerResult,        \* what the progress promise of Promise.all settled to
    gamesResult,         \* what the owned-games fetch settled to
    settled,             \* the fetches of the call that have settled, in order
    ret,                 \* outcome of the last finished call
    lastKeys,            \* per game, the names its most recent fetches showed
    remote,              \* the remote responses of a repeated sync
    runs,                \* the calls a repeated sync has finished
    vanityUrl,           \* vanityUrl argument of resolveVanityUrl
    vanityRemote,        \* the response the resolution endpoint gives
    vanityFetched,       \* what fetchJson(url) settled to
    vanityRet,           \* outcome of resolveVanityUrl
    vpc,                 \* "start", "awaiting", "settled" or "done"
    users,               \* the users table: None, or Some(its single row)
    env,                 \* process.env after the .env file is loaded
    cfgRet,              \* Some(what the last getConfig returned), None after setConfig
    envAdded,            \* a variable was set or changed since the last getConfig
    lastSet,             \* Some(the argument of the last setConfig), None before it
    lastOp               \* the operation of the last step

mergeVars == <<schemaAchievements, playerAchievements, mergeAppId, merged, mpc>>
storeVars == <<achievements, games, keyScope>>
callVars == <<pc, callAppId, schemaFetched, playerFetched, schemaResult,
              playerResult, gamesResult, settled, ret>>
syncVars == <<storeVars, callVars, lastKeys, remote, runs>>

vanityVars == <<vanityUrl, vanityRemote, vanityFetched, vanityRet, vpc>>
configVars == <<users, env, cfgRet, envAdded, lastSet, lastOp>>
nonSyncVars == <<mergeVars, vanityVars, configVars>>
nonMergeVars == <<syncVars, vanityVars, configVars>>
nonVanityVars == <<mergeVars, syncVars, configVars>>
nonConfigVars == <<mergeVars, syncVars, vanityVars>>

vars == <<mergeVars, syncVars, vanityVars, configVars>>

-----------------------------------------------------------------------------
(* Bounds of the model *)

\* most entries of one merge call, schema and progress lists together
MaxEntries == 4

\* longest achievement list a remote response of a sync carries
MaxSyncLen == 1

\* longest owned-games list a remote response carries
MaxGamesLen == 2

\* most rows of a table a repeated sync starts from
MaxRows == 2

\* calls of a repeated sync
MaxRuns == 2

\* most environment variables set at once
MaxEnvSet == 2

-----------------------------------------------------------------------------
(* JavaScript values *)

\* an optional property: <<>> is undefined/absent, <<v>> is the value v
None == <<>>
Some(v) == <<v>>
IsSome(o) == o # None
Val(o) == o[1]

\* a ?? b on an optional a
Coalesce(o, d) == IF IsSome(o) THEN Val(o) ELSE d

SeqsUpTo(S, n) == UNION {[1..k -> S] : k \in 0..n}

Names == {"a1", "a2"}
AppIds == {1, 2}

\* { name: string; displayName?: string; description?: string }
SchemaEntries ==
    [name : Names,
     displayName : {None, Some(""), Some("D")},
     description : {None, Some("d")}]

\* { apiname: string; achieved: number; unlocktime?: number }
PlayerEntries ==
    [apiname : Names,
     achieved : {0, 1},
     unlocktime : {None, Some(0), Some(5)}]

-----------------------------------------------------------------------------
(* mergeSchemaAndPlayerAchievements *)

\* new Date(seconds * 1000): a date is its epoch milliseconds
DateOfSeconds(s) == s * 1000

\* Map.get: index of the entry with this key in an insertion-ordered map, 0 if none
MapIndex(m, key) ==
    IF \E i \in 1..Len(m) : m[i].apiName = key
    THEN CHOOSE i \in 1..Len(m) : m[i].apiName = key
    ELSE 0

\* Map.set: replaces the value in place when the key exists, appends otherwise
MapSet(m, key, rec) ==
    IF MapIndex(m, key) = 0 THEN Append(m, rec)
    ELSE [m EXCEPT ![MapIndex(m, key)] = rec]

\* the record seeded from one schema entry
SchemaRecord(s, appId) ==
    [apiName |-> s.name,
     gameAppId |-> appId,
     displayName |-> Coalesce(s.displayName, s.name),
     description |-> Coalesce(s.description, ""),
     achieved |-> FALSE,
     unlockedAt |-> None]

RECURSIVE SeedFromSchema(_, _, _)
SeedFromSchema(m, S, appId) ==
    IF S = <<>> THEN m
    ELSE SeedFromSchema(MapSet(m, Head(S).name, SchemaRecord(Head(S), appId)),
                        Tail(S), appId)

\* p.unlocktime && p.unlocktime > 0 ? new Date(p.unlocktime * 1000) : undefined
UnlockedAtOf(p) ==
    IF IsSome(p.unlocktime) /\ Val(p.unlocktime) # 0 /\ Val(p.unlocktime) > 0
    THEN Some(DateOfSeconds(Val(p.unlocktime)))
    ELSE None

\* ApplyPlayer as a left join: a progress entry the schema lacks is skipped
ApplyPlayerSkipsUnknown(m, p, appId) ==
    LET i == MapIndex(m, p.apiname) IN
    IF i # 0
    THEN [m EXCEPT ![i].achieved = (p.achieved = 1),
                   ![i].unlockedAt = UnlockedAtOf(p)]
    ELSE m

\* ApplyPlayer replacing the schema's record instead of updating two fields
ApplyPlayerReplaces(m, p, appId) ==
    MapSet(m, p.apiname,
           [apiName |-> p.apiname,
            gameAppId |-> appId,
            displayName |-> p.apiname,
            description |-> "",
            achieved |-> (p.achieved = 1),
            unlockedAt |-> UnlockedAtOf(p)])

\* one iteration of the loop over playerAchievements
ApplyPlayer(m, p, appId) ==
    LET i == MapIndex(m, p.apiname) IN
    IF i # 0
    THEN [m EXCEPT ![i].achieved = (p.achieved = 1),
                   ![i].unlockedAt = UnlockedAtOf(p)]
    ELSE MapSet(m, p.apiname,
                [apiName |-> p.apiname,
                 gameAppId |-> appId,
                 displayName |-> p.apiname,
                 description |-> "",
                 achieved |-> (p.achieved = 1),
                 unlockedAt |-> UnlockedAtOf(p)])

RECURSIVE ApplyPlayers(_, _, _)
ApplyPlayers(m, P, appId) ==
    IF P = <<>> THEN m
    ELSE ApplyPlayers(ApplyPlayer(m, Head(P), appId), Tail(P), appId)

mergeSchemaAndPlayerAchievements(S, P, appId) ==
    ApplyPlayers(SeedFromSchema(<<>>, S, appId), P, appId)


-----------------------------------------------------------------------------
(* fetchJson *)

\* the status codes tried: res.statusCode may be undefined
StatusCodes == {None, Some(199), Some(200), Some(299), Some(300), Some(500)}
SyncStatusCodes == {Some(200), Some(500)}

\* a transport error, or a response with a status and a body; the body is
\* None when it is not JSON, Some(json) when JSON.parse accepts it
NetError == [kind |-> "error", status |-> None, body |-> None]
Http(status, body) == [kind |-> "response", status |-> status, body |-> body]

RawResponses(Codes, Jsons) ==
    {NetError} \cup
    {Http(st, b) : st \in Codes, b \in {None} \cup {Some(j) : j \in Jsons}}

\* a settled promise: None is a rejection, Some(v) is fulfilment with v
Rejected == None
Resolved(v) == Some(v)

fetchJson(raw) ==
    IF raw.kind = "error" THEN Rejected
    ELSE LET status == Coalesce(raw.status, 0) IN
         IF status < 200 \/ status >= 300 THEN Rejected
         ELSE IF raw.body = None THEN Rejected
         ELSE Resolved(Val(raw.body))

-----------------------------------------------------------------------------
(* The Local Store *)

\* Date.prototype.toISOString of epoch milliseconds: the day since the epoch
\* and the time of day, to the millisecond
ToISOString(ms) ==
    [day |-> ms \div 86400000,
     hour |-> (ms % 86400000) \div 3600000,
     minute |-> (ms % 3600000) \div 60000,
     second |-> (ms % 60000) \div 1000,
     milli |-> ms % 1000]

\* the parameters bound for one item: achieved as 0/1, unlockedAt as ISO text or NULL
AchievementRow(item) ==
    [apiName |-> item.apiName,
     gameAppId |-> item.gameAppId,
     displayName |-> item.displayName,
     description |-> item.description,
     achieved |-> IF item.achieved THEN 1 ELSE 0,
     unlockedAt |-> IF IsSome(item.unlockedAt)
                    THEN Some(ToISOString(Val(item.unlockedAt)))
                    ELSE None]

\* primary key of the achievements table: the API name, within a game or
\* across games (the data model says the first, the table layout the second)
KeyScopes == {"game", "global"}
AchievementKey(row) ==
    <<IF keyScope = "game" THEN row.gameAppId ELSE 0, row.apiName>>

\* primary key of the games table
GameKey(row) == row.appId

\* INSERT with no conflict clause into a table that enforces no key
InsertAchievement(table, row) == Append(table, row)

\* INSERT OR REPLACE INTO achievements: the row holding the key is deleted and
\* the new row is added with a fresh rowid
UpsertAchievement(table, row) ==
    Append(SelectSeq(table, LAMBDA r : AchievementKey(r) # AchievementKey(row)), row)

\* INSERT OR REPLACE INTO games
UpsertGame(table, row) ==
    Append(SelectSeq(table, LAMBDA r : GameKey(r) # GameKey(row)), row)

\* the upsert transaction of getAchievements over the merged items
PersistAchievements(table, items) ==
    LET tx[i \in 0..Len(items)] ==
            IF i = 0 THEN table
            ELSE UpsertAchievement(tx[i-1], AchievementRow(items[i]))
    IN tx[Len(items)]

\* the insert transaction of getGames over the filtered games
PersistGames(table, items) ==
    LET tx[i \in 0..Len(items)] ==
            IF i = 0 THEN table
            ELSE UpsertGame(tx[i-1], items[i])
    IN tx[Len(items)]

-----------------------------------------------------------------------------
(* getAchievements and getGames *)

SyncSchemaEntries ==
    {e \in SchemaEntries : e.displayName = None /\ e.description = None}
SyncPlayerEntries ==
    {e \in PlayerEntries : e.unlocktime = (IF e.achieved = 1 THEN Some(5) ELSE None)}

\* SchemaResp and PlayerResp: the achievements list, None when the response
\* lacks game, availableGameStats, playerstats or achievements
SchemaJsons ==
    [achievements : {None} \cup {Some(l) : l \in SeqsUpTo(SyncSchemaEntries, MaxSyncLen)}]
PlayerJsons ==
    [achievements : {None} \cup {Some(l) : l \in SeqsUpTo(SyncPlayerEntries, MaxSyncLen)}]

\* an entry of the owned-games list: appid is None when it is not a number,
\* name is None when it is not a string
RawGames == [appid : {None} \cup {Some(a) : a \in AppIds},
             name : {None, Some(""), Some("G"), Some("H")}]
GamesJsons ==
    [games : {None} \cup {Some(l) : l \in SeqsUpTo(RawGames, MaxGamesLen)}]

EmptyJson == [achievements |-> None]

\* promise.catch(() => ({})) left out: a rejection stays a rejection
NoCatch(result) == result

\* promise.catch(() => ({})): a rejection becomes fulfilment with {}
CatchEmpty(result) == IF result = Rejected THEN Resolved(EmptyJson) ELSE result

\* x.achievements ?? [] at the end of the optional chain
AchievementsOf(json) == Coalesce(json.achievements, <<>>)

\* typeof g.appid === 'number' && typeof g.name === 'string' && g.name.length > 0
KeepsGame(g) == IsSome(g.appid) /\ IsSome(g.name) /\ Len(Val(g.name)) > 0
ToGame(g) == [appId |-> Val(g.appid), name |-> Val(g.name)]
FilterGames(json) ==
    LET kept == SelectSeq(Coalesce(json.games, <<>>), KeepsGame)
    IN [i \in 1..Len(kept) |-> ToGame(kept[i])]

\* outcome of a call: the returned sequence, or the call threw
Threw == [threw |-> TRUE, value |-> <<>>]
Returned(v) == [threw |-> FALSE, value |-> v]

NoGames == [n \in AppIds |-> {}]

\* the names a schema list and a progress list show
SchemaKeys(S) == {S[i].name : i \in 1..Len(S)}
PlayerKeys(P) == {P[i].apiname : i \in 1..Len(P)}

\* getAchievements up to the await: both fetches are issued
StartGetAchievements(appId) ==
    /\ pc = "idle"
    /\ pc' = "achievements"
    /\ callAppId' = appId
    /\ schemaFetched' = None
    /\ playerFetched' = None
    /\ schemaResult' = None
    /\ playerResult' = None
    /\ gamesResult' = None
    /\ settled' = <<>>
    /\ UNCHANGED <<ret, storeVars, lastKeys, remote, runs, nonSyncVars>>

InList(s, x) == \E i \in 1..Len(s) : s[i] = x

\* the schema fetch settles; Promise.all rejects at once when it rejected
SchemaSettles(raw) ==
    /\ pc = "achievements"
    /\ ~InList(settled, "schema")
    /\ settled' = Append(settled, "schema")
    /\ schemaFetched' = fetchJson(raw)
    /\ schemaResult' = CatchEmpty(schemaFetched')
    /\ IF schemaResult' = Rejected
       THEN pc' = "idle" /\ ret' = Threw
       ELSE UNCHANGED <<pc, ret>>
    /\ UNCHANGED <<callAppId, playerFetched, playerResult, gamesResult, storeVars,
                   lastKeys, remote, runs, nonSyncVars>>

\* the progress fetch settles
PlayerSettles(raw) ==
    /\ pc = "achievements"
    /\ ~InList(settled, "player")
    /\ settled' = Append(settled, "player")
    /\ playerFetched' = fetchJson(raw)
    /\ playerResult' = CatchEmpty(playerFetched')
    /\ IF playerResult' = Rejected
       THEN pc' = "idle" /\ ret' = Threw
       ELSE UNCHANGED <<pc, ret>>
    /\ UNCHANGED <<callAppId, schemaFetched, schemaResult, gamesResult, storeVars,
                   lastKeys, remote, runs, nonSyncVars>>

\* getAchievements after the await: merge, persist in one transaction, return
FinishGetAchievements ==
    /\ pc = "achievements"
    /\ Len(settled) = 2
    /\ LET items == mergeSchemaAndPlayerAchievements(
                        AchievementsOf(Val(schemaResult)),
                        AchievementsOf(Val(playerResult)), callAppId)
       IN /\ achievements' = PersistAchievements(achievements, items)
          /\ ret' = Returned(items)
          /\ lastKeys' = [lastKeys EXCEPT ![callAppId] =
                             SchemaKeys(AchievementsOf(Val(schemaResult)))
                             \cup PlayerKeys(AchievementsOf(Val(playerResult)))]
    /\ pc' = "idle"
    /\ runs' = IF runs < MaxRuns THEN runs + 1 ELSE runs
    /\ UNCHANGED <<callAppId, schemaFetched, playerFetched, schemaResult,
                   playerResult, gamesResult, settled, games, keyScope, remote,
                   nonSyncVars>>

\* getGames up to the await
StartGetGames ==
    /\ pc = "idle"
    /\ pc' = "games"
    /\ callAppId' = 0
    /\ schemaFetched' = None
    /\ playerFetched' = None
    /\ schemaResult' = None
    /\ playerResult' = None
    /\ gamesResult' = None
    /\ settled' = <<>>
    /\ UNCHANGED <<ret, storeVars, lastKeys, remote, runs, nonSyncVars>>

\* the owned-games fetch settles
GamesSettles(raw) ==
    /\ pc = "games"
    /\ settled = <<>>
    /\ settled' = <<"games">>
    /\ gamesResult' = fetchJson(raw)
    /\ UNCHANGED <<pc, callAppId, schemaFetched, playerFetched, schemaResult,
                   playerResult, ret, storeVars, lastKeys, remote, runs, nonSyncVars>>

\* getGames after the await: throw on a rejection, else filter, persist, return
FinishGetGames ==
    /\ pc = "games"
    /\ settled = <<"games">>
    /\ IF gamesResult = Rejected
       THEN /\ ret' = Threw
            /\ games' = games
       ELSE LET items == FilterGames(Val(gamesResult))
            IN /\ games' = PersistGames(games, items)
               /\ ret' = Returned(items)
    /\ pc' = "idle"
    /\ runs' = IF runs < MaxRuns THEN runs + 1 ELSE runs
    /\ UNCHANGED <<callAppId, schemaFetched, playerFetched, schemaResult,
                   playerResult, gamesResult, settled, achievements, keyScope,
                   lastKeys, remote, nonSyncVars>>

-----------------------------------------------------------------------------
(* Specification of the merge on its own: every bounded input, one call *)

-----------------------------------------------------------------------------
(* resolveVanityUrl *)

VanityNames == {"gabe", "76561197960287930", ""}

\* Resp: { response?: { success?: number; steamid?: string } }
VanityJsons ==
    [response : {None} \cup
        {Some(r) : r \in [success : {None, Some(1), Some(42)},
                          steamid : {None, Some(""), Some("76561197960287930")}]}]

NoVanityJson == [response |-> None]

\* resolveVanityUrl up to the await: the request is issued
StartResolve ==
    /\ vpc = "start"
    /\ vpc' = "awaiting"
    /\ UNCHANGED <<vanityUrl, vanityRemote, vanityFetched, vanityRet, nonVanityVars>>

\* the request settles
ResolveSettles ==
    /\ vpc = "awaiting"
    /\ vanityFetched' = fetchJson(vanityRemote)
    /\ vpc' = "settled"
    /\ UNCHANGED <<vanityUrl, vanityRemote, vanityRet, nonVanityVars>>

\* data.response?.success === 1 && data.response.steamid
ResolvedSteamId(data) ==
    IF /\ IsSome(data.response)
       /\ Val(data.response).success = Some(1)
       /\ IsSome(Val(data.response).steamid)
       /\ Val(Val(data.response).steamid) # ""
    THEN Val(data.response).steamid
    ELSE None

\* resolveVanityUrl after the await: a rejection of fetchJson propagates
FinishResolve ==
    /\ vpc = "settled"
    /\ vanityRet' =
          IF vanityFetched = Rejected THEN Threw
          ELSE Returned(Coalesce(ResolvedSteamId(Val(vanityFetched)), vanityUrl))
    /\ vpc' = "done"
    /\ UNCHANGED <<vanityUrl, vanityRemote, vanityFetched, nonVanityVars>>

-----------------------------------------------------------------------------
(* getConfig and setConfig *)

\* a NULL column, as the store reads it back
Null == <<"null", "null">>
IsNullish(o) == o = None \/ o = Null

\* a ?? b on optional values
Nullish(a, b) == IF IsNullish(a) THEN b ELSE a

\* undefined is stored as NULL
ToSql(o) == IF o = None THEN Null ELSE o

SteamIdEnvNames == <<"STEAM_ID", "STEAMID64", "STEAM_ID64", "STEAM_STEAMID">>
ApiKeyEnvNames == <<"STEAM_API_KEY", "STEAM_WEB_API_KEY", "STEAMKEY">>
OpenRouterEnvNames == <<"OPENROUTER_API_KEY">>
EnvNames ==
    {SteamIdEnvNames[i] : i \in 1..Len(SteamIdEnvNames)}
    \cup {ApiKeyEnvNames[i] : i \in 1..Len(ApiKeyEnvNames)}
    \cup {OpenRouterEnvNames[i] : i \in 1..Len(OpenRouterEnvNames)}

\* process.env.A || process.env.B || ...: the first set, non-empty variable
RECURSIVE FirstTruthy(_, _)
FirstTruthy(e, names) ==
    IF names = <<>> THEN None
    ELSE IF IsSome(e[Head(names)]) /\ Val(e[Head(names)]) # ""
         THEN e[Head(names)]
         ELSE FirstTruthy(e, Tail(names))

\* ... || ''
EnvSteamId(e) == Coalesce(FirstTruthy(e, SteamIdEnvNames), "")
\* ... || undefined
EnvApiKey(e) == FirstTruthy(e, ApiKeyEnvNames)
EnvOpenRouter(e) == FirstTruthy(e, OpenRouterEnvNames)

\* the environment's steam id wins over the stored one
SteamIdEnvFirst(row, e) ==
    IF EnvSteamId(e) # "" THEN EnvSteamId(e)
    ELSE IF IsSome(row) THEN Val(row).steamId ELSE ""

\* (row?.steamId && row.steamId.length > 0 ? row.steamId : envSteamId) || ''
EffectiveSteamId(row, e) ==
    IF IsSome(row) /\ Val(row).steamId # "" /\ Len(Val(row).steamId) > 0
    THEN Val(row).steamId
    ELSE EnvSteamId(e)

\* the effective config of getConfig
EffectiveConfig(row, e) ==
    [steamId |-> EffectiveSteamId(row, e),
     apiKey |-> Nullish(IF IsSome(row) THEN Val(row).apiKey ELSE None, EnvApiKey(e)),
     openRouterApiKey |->
        Nullish(IF IsSome(row) THEN Val(row).openRouterApiKey ELSE None,
                EnvOpenRouter(e))]

\* persisting only when the table is empty
PersistOnlyFirst(row, effective) == row = None

\* !row || row.steamId !== effective.steamId || row.apiKey !== effective.apiKey
\*      || row.openRouterApiKey !== effective.openRouterApiKey
ShouldPersist(row, effective) ==
    \/ row = None
    \/ Val(row).steamId # effective.steamId
    \/ Val(row).apiKey # effective.apiKey
    \/ Val(row).openRouterApiKey # effective.openRouterApiKey

\* INSERT OR REPLACE INTO users: the table keeps a single row
ReplaceUser(table, config) ==
    Some([steamId |-> config.steamId,
          apiKey |-> ToSql(config.apiKey),
          openRouterApiKey |-> ToSql(config.openRouterApiKey)])

\* the users table after getConfig
UsersAfterGetConfig(table, e) ==
    IF ShouldPersist(table, EffectiveConfig(table, e))
    THEN ReplaceUser(table, EffectiveConfig(table, e))
    ELSE table

GetConfig ==
    /\ cfgRet' = Some(EffectiveConfig(users, env))
    /\ users' = UsersAfterGetConfig(users, env)
    /\ envAdded' = FALSE
    /\ lastOp' = "getConfig"
    /\ UNCHANGED <<env, lastSet, nonConfigVars>>

\* Partial<User>: None is a field left out or undefined
Partials ==
    [steamId : {None, Some(""), Some("u2")},
     apiKey : {None, Some(""), Some("k2")},
     openRouterApiKey : {None, Some("o2")}]

\* the partial written as it is: fields it leaves out are cleared
NewConfigClears(config, existingConfig) ==
    [steamId |-> Coalesce(config.steamId, ""),
     apiKey |-> config.apiKey,
     openRouterApiKey |-> config.openRouterApiKey]

\* newConfig of setConfig
NewConfig(config, existingConfig) ==
    [steamId |-> Coalesce(config.steamId, existingConfig.steamId),
     apiKey |-> Nullish(config.apiKey, existingConfig.apiKey),
     openRouterApiKey |->
        Nullish(config.openRouterApiKey, existingConfig.openRouterApiKey)]

SetConfig(config) ==
    /\ users' = ReplaceUser(UsersAfterGetConfig(users, env),
                            NewConfig(config, EffectiveConfig(users, env)))
    /\ cfgRet' = None
    /\ envAdded' = FALSE
    /\ lastSet' = Some(config)
    /\ lastOp' = "setConfig"
    /\ UNCHANGED <<env, nonConfigVars>>

SetVars(e) == {n \in EnvNames : IsSome(e[n])}

\* the environment gains a variable or a variable changes its value
SetEnv(n, v) ==
    /\ env[n] # v
    /\ Cardinality(SetVars(env) \cup {n}) <= MaxEnvSet
    /\ env' = [env EXCEPT ![n] = v]
    /\ envAdded' = TRUE
    /\ lastOp' = "env"
    /\ UNCHANGED <<users, cfgRet, lastSet, nonConfigVars>>

\* a variable is removed from the environment
UnsetEnv(n) ==
    /\ IsSome(env[n])
    /\ env' = [env EXCEPT ![n] = None]
    /\ lastOp' = "env"
    /\ UNCHANGED <<users, cfgRet, envAdded, lastSet, nonConfigVars>>

-----------------------------------------------------------------------------
(* States at rest *)

NoRemote ==
    [op |-> "none", appId |-> 0, schema |-> NetError, player |-> NetError,
     games |-> NetError]

\* no call in flight, nothing returned yet
CallAtRest ==
    /\ pc = "idle"
    /\ callAppId = 0
    /\ schemaFetched = None
    /\ playerFetched = None
    /\ schemaResult = None
    /\ playerResult = None
    /\ gamesResult = None
    /\ settled = <<>>
    /\ ret = Returned(<<>>)
    /\ lastKeys = NoGames
    /\ runs = 0

SyncAtRest ==
    /\ achievements = <<>>
    /\ games = <<>>
    /\ keyScope = "game"
    /\ CallAtRest
    /\ remote = NoRemote

VanityAtRest ==
    /\ vanityUrl = ""
    /\ vanityRemote = NetError
    /\ vanityFetched = None
    /\ vanityRet = Returned("")
    /\ vpc = "unused"

NoEnv == [n \in EnvNames |-> None]

ConfigAtRest ==
    /\ users = None
    /\ env = NoEnv
    /\ cfgRet = None
    /\ envAdded = FALSE
    /\ lastSet = None
    /\ lastOp = "init"

MergeAtRest ==
    /\ schemaAchievements = <<>>
    /\ playerAchievements = <<>>
    /\ mergeAppId = 0
    /\ merged = <<>>
    /\ mpc = "unused"

InitMerge ==
    /\ SyncAtRest
    /\ VanityAtRest
    /\ ConfigAtRest
    /\ schemaAchievements \in SeqsUpTo(SchemaEntries, MaxEntries)
    /\ playerAchievements \in
           SeqsUpTo(PlayerEntries, MaxEntries - Len(schemaAchievements))
    /\ mergeAppId \in AppIds
    /\ merged = <<>>
    /\ mpc = "start"

CallMerge ==
    /\ mpc = "start"
    /\ merged' = mergeSchemaAndPlayerAchievements(schemaAchievements,
                                                  playerAchievements, mergeAppId)
    /\ mpc' = "done"
    /\ UNCHANGED <<schemaAchievements, playerAchievements, mergeAppId, nonMergeVars>>

NextMerge == CallMerge

SpecMerge == InitMerge /\ [][NextMerge]_vars


-----------------------------------------------------------------------------
(* Specification of the syncs: any sequence of getAchievements calls *)

InitSync ==
    /\ MergeAtRest
    /\ VanityAtRest
    /\ ConfigAtRest
    /\ achievements = <<>>
    /\ games = <<>>
    /\ keyScope \in KeyScopes
    /\ CallAtRest
    /\ remote = NoRemote

SyncStart ==
    /\ runs < MaxRuns
    /\ \E appId \in AppIds : StartGetAchievements(appId)
SyncSchemaSettles ==
    \E raw \in RawResponses(SyncStatusCodes, SchemaJsons) : SchemaSettles(raw)
SyncPlayerSettles ==
    \E raw \in RawResponses(SyncStatusCodes, PlayerJsons) : PlayerSettles(raw)

NextSync ==
    \/ SyncStart
    \/ SyncSchemaSettles
    \/ SyncPlayerSettles
    \/ FinishGetAchievements

SpecSync == InitSync /\ [][NextSync]_vars

-----------------------------------------------------------------------------
(* Specification of a repeated sync: the same call twice, the remote       *)
(* responses the same both times, from any persisted state                 *)

\* the rows getAchievements writes
AchievementRows ==
    {AchievementRow(it) :
        it \in UNION {
            {SchemaRecord(s, g) : s \in SyncSchemaEntries} \cup
            {ApplyPlayer(<<>>, p, g)[1] : p \in SyncPlayerEntries} : g \in AppIds}}

\* the rows getGames writes
GameRows == {ToGame(g) : g \in {r \in RawGames : KeepsGame(r)}}

AchievementTables ==
    {tb \in SeqsUpTo(AchievementRows, MaxRows) :
        \A i, j \in 1..Len(tb) :
            AchievementKey(tb[i]) = AchievementKey(tb[j]) => i = j}

GameTables ==
    {tb \in SeqsUpTo(GameRows, MaxRows) :
        \A i, j \in 1..Len(tb) : GameKey(tb[i]) = GameKey(tb[j]) => i = j}

\* the responses the remote gives on every run of the repeated sync
ResyncResponses(Jsons) ==
    {NetError, Http(Some(500), None), Http(Some(200), None)}
    \cup {Http(Some(200), Some(j)) : j \in Jsons}

Remotes ==
    [op : {"achievements"}, appId : AppIds,
     schema : ResyncResponses(SchemaJsons),
     player : ResyncResponses(PlayerJsons),
     games : {NetError}]
    \cup
    [op : {"games"}, appId : {0},
     schema : {NetError}, player : {NetError},
     games : ResyncResponses(GamesJsons)]

InitResync ==
    /\ MergeAtRest
    /\ VanityAtRest
    /\ ConfigAtRest
    /\ CallAtRest
    /\ keyScope \in KeyScopes
    /\ remote \in Remotes
    /\ IF remote.op = "achievements"
       THEN achievements \in AchievementTables /\ games = <<>>
       ELSE achievements = <<>> /\ games \in GameTables

ResyncStartAchievements ==
    /\ remote.op = "achievements"
    /\ runs < MaxRuns
    /\ StartGetAchievements(remote.appId)

ResyncStartGames ==
    /\ remote.op = "games"
    /\ runs < MaxRuns
    /\ StartGetGames

ResyncSchemaSettles == SchemaSettles(remote.schema)
ResyncPlayerSettles == PlayerSettles(remote.player)
ResyncGamesSettles == GamesSettles(remote.games)

NextResync ==
    \/ ResyncStartAchievements
    \/ ResyncSchemaSettles
    \/ ResyncPlayerSettles
    \/ FinishGetAchievements
    \/ ResyncStartGames
    \/ ResyncGamesSettles
    \/ FinishGetGames

SpecResync == InitResync /\ [][NextResync]_vars

-----------------------------------------------------------------------------
(* Specification of vanity resolution: every name, every response, one call *)

InitVanity ==
    /\ MergeAtRest
    /\ SyncAtRest
    /\ ConfigAtRest
    /\ vanityUrl \in VanityNames
    /\ vanityRemote \in RawResponses(StatusCodes, VanityJsons)
    /\ vanityFetched = None
    /\ vanityRet = Returned("")
    /\ vpc = "start"

NextVanity ==
    \/ StartResolve
    \/ ResolveSettles
    \/ FinishResolve

SpecVanity == InitVanity /\ [][NextVanity]_vars

-----------------------------------------------------------------------------
(* Specification of the config resolver: getConfig and setConfig calls     *)
(* while the environment changes                                           *)

InitConfig ==
    /\ MergeAtRest
    /\ SyncAtRest
    /\ VanityAtRest
    /\ ConfigAtRest

CallSetConfig == \E config \in Partials : SetConfig(config)
\* the values a variable is set to: its own name as a value, and for the
\* first variable of each chain also the empty string
EnvValues(n) ==
    IF n \in {SteamIdEnvNames[1], ApiKeyEnvNames[1]}
    THEN {Some(""), Some(n)} ELSE {Some(n)}

ChangeEnv == \E n \in EnvNames : \E v \in EnvValues(n) : SetEnv(n, v)
RemoveEnv == \E n \in EnvNames : UnsetEnv(n)

NextConfig ==
    \/ GetConfig
    \/ CallSetConfig
    \/ ChangeEnv
    \/ RemoveEnv

SpecConfig == InitConfig /\ [][NextConfig]_vars

-----------------------------------------------------------------------------
(* Properties of the merge *)

MergedKeys(M) == {M[i].apiName : i \in 1..Len(M)}

\* the last schema entry with this name (later duplicates overwrite earlier ones)
LastSchema(S, key) ==
    S[CHOOSE i \in 1..Len(S) :
        /\ S[i].name = key
        /\ \A j \in (i+1)..Len(S) : S[j].name # key]

\* the last progress entry with this name
LastPlayer(P, key) ==
    P[CHOOSE i \in 1..Len(P) :
        /\ P[i].apiname = key
        /\ \A j \in (i+1)..Len(P) : P[j].apiname # key]

HasPositiveUnlockTime(p) == IsSome(p.unlocktime) /\ Val(p.unlocktime) > 0

\* C1: the merge is a total outer join on the achievement name: the names of
\* the output are exactly keys(S) \cup keys(P), one record per distinct name.
MergeIsTotalOuterJoin ==
    mpc = "done" =>
        /\ MergedKeys(merged) =
              SchemaKeys(schemaAchievements) \cup PlayerKeys(playerAchievements)
        /\ \A i, j \in 1..Len(merged) :
              merged[i].apiName = merged[j].apiName => i = j

\* a merge of a schema with a duplicate name and a progress list that both
\* overlaps the schema and brings a name the schema lacks
MergeOuterJoinWitness ==
    /\ mpc = "done"
    /\ Len(schemaAchievements) = 2
    /\ schemaAchievements[1].name = schemaAchievements[2].name
    /\ \E k \in PlayerKeys(playerAchievements) :
          k \in SchemaKeys(schemaAchievements)
    /\ \E k \in PlayerKeys(playerAchievements) :
          k \notin SchemaKeys(schemaAchievements)
    /\ Len(merged) = 2

\* C2: for every progress entry, unlockedAt is set if and only if the entry is
\* achieved (achieved = 1) and its raw unlock time is a positive integer.
UnlockedAtIffAchievedAndPositive ==
    mpc = "done" =>
        \A i \in 1..Len(merged) :
            merged[i].apiName \in PlayerKeys(playerAchievements) =>
                LET p == LastPlayer(playerAchievements, merged[i].apiName) IN
                IsSome(merged[i].unlockedAt) <=>
                    (p.achieved = 1 /\ HasPositiveUnlockTime(p))

\* C3: a name in both lists takes achieved and unlockedAt from its progress
\* entry and displayName and description from its schema entry; a name only
\* in the schema is not achieved and has no unlockedAt; a name only in the
\* progress list has displayName = apiName and an empty description.
MergeFieldsBySource ==
    mpc = "done" =>
        \A i \in 1..Len(merged) :
            LET r == merged[i]
                inS == r.apiName \in SchemaKeys(schemaAchievements)
                inP == r.apiName \in PlayerKeys(playerAchievements)
                s == LastSchema(schemaAchievements, r.apiName)
                p == LastPlayer(playerAchievements, r.apiName)
            IN
            /\ inP =>
                  /\ r.achieved = (p.achieved = 1)
                  /\ r.unlockedAt =
                        IF HasPositiveUnlockTime(p)
                        THEN Some(1000 * Val(p.unlocktime)) ELSE None
            /\ inS =>
                  /\ r.displayName =
                        IF s.displayName = None THEN s.name ELSE Val(s.displayName)
                  /\ r.description =
                        IF s.description = None THEN "" ELSE Val(s.description)
            /\ (inS /\ ~inP) => (r.achieved = FALSE /\ r.unlockedAt = None)
            /\ (inP /\ ~inS) => (r.displayName = r.apiName /\ r.description = "")

\* a merge with a name in both lists whose schema entry has a display name and
\* a description and whose progress entry is achieved with an unlock time,
\* one name only in the schema and one only in the progress list
MergeFieldsWitness ==
    /\ mpc = "done"
    /\ \E i \in 1..Len(merged) :
          /\ merged[i].displayName = "D"
          /\ merged[i].description = "d"
          /\ merged[i].achieved
          /\ merged[i].unlockedAt = Some(5000)
    /\ \E i \in 1..Len(merged) :
          /\ merged[i].apiName \in SchemaKeys(schemaAchievements)
          /\ merged[i].apiName \notin PlayerKeys(playerAchievements)
    /\ Len(merged) = 2
    /\ Len(playerAchievements) = 2

-----------------------------------------------------------------------------
(* Properties of the syncs *)

\* a response fetchJson turns into a failure: a transport error, a status
\* outside 200..299, or a body that is not JSON
IsFailure(raw) ==
    \/ raw.kind = "error"
    \/ raw.status = None
    \/ Val(raw.status) < 200
    \/ Val(raw.status) > 299
    \/ raw.body = None

\* the achievements a response carries, none when it is a failure
CarriedList(raw) ==
    IF IsFailure(raw) THEN <<>>
    ELSE IF Val(raw.body).achievements = None THEN <<>>
    ELSE Val(Val(raw.body).achievements)

StoredNamesIn(table, g) ==
    {table[i].apiName : i \in {j \in 1..Len(table) : table[j].gameAppId = g}}
StoredNames(g) == StoredNamesIn(achievements, g)

\* C4: a second run of getAchievements or getGames with the same remote
\* responses leaves the persisted rows as the first run left them and returns
\* what the first run returned.
ResyncIdempotent ==
    [][(runs >= 1 /\ runs' = runs + 1) =>
          /\ achievements' = achievements
          /\ games' = games
          /\ ret' = ret]_vars

\* two runs of getAchievements done, over a table that also holds a row the
\* runs did not write
ResyncWitness ==
    /\ runs >= 2
    /\ pc = "idle"
    /\ remote.op = "achievements"
    /\ ~ret.threw
    /\ Len(ret.value) = 2
    /\ Len(achievements) > 2

\* C5: the two fetches of getAchievements fail independently, in any order of
\* completion: the call never throws, a failed source counts as an empty
\* list next to the other source's data, the call returns the merge of the
\* two lists, and the achievements table is written only once both fetches
\* have settled, with the rows of exactly that merge.
FanOutIsolatesFailures ==
    [][/\ achievements' # achievements =>
             (pc = "achievements" /\ InList(settled, "schema")
                                  /\ InList(settled, "player"))
       /\ (pc = "achievements" /\ pc' = "idle") =>
             LET items == mergeSchemaAndPlayerAchievements(
                              CarriedList(remote.schema),
                              CarriedList(remote.player), callAppId)
                 rows == [i \in 1..Len(items) |-> AchievementRow(items[i])]
                 kept == Len(achievements') - Len(rows)
             IN /\ Len(settled) = 2
                /\ ret' = Returned(items)
                /\ kept >= 0
                /\ SubSeq(achievements', kept + 1, Len(achievements')) = rows
                /\ \A i \in 1..kept : InList(achievements, achievements'[i])
      ]_vars

\* a call returned the progress data although its schema fetch failed after
\* the progress fetch had completed
FanOutWitness ==
    /\ pc = "idle"
    /\ runs >= 1
    /\ remote.op = "achievements"
    /\ settled = <<"player", "schema">>
    /\ IsFailure(remote.schema)
    /\ ~IsFailure(remote.player)
    /\ ~ret.threw
    /\ Len(ret.value) = 1
    /\ \E i \in 1..Len(achievements) :
          achievements[i] = AchievementRow(ret.value[1])

\* C10: after any sequence of getAchievements calls, the stored names of a
\* game are exactly the names its most recent schema and progress fetches
\* showed: no row of an earlier sync survives them, none of theirs is missing.
StoredKeysEqualLatestFetches ==
    \A g \in AppIds : StoredNames(g) = lastKeys[g]

-----------------------------------------------------------------------------
(* Properties of vanity resolution *)

\* C6: resolveVanityUrl never fails: on every response that is not a
\* successful resolution (transport error, status outside 200..299, body that
\* is not JSON, success other than 1, no steamid) it returns vanityUrl, and
\* it returns the service's steamid only when success = 1 with a steamid.
ResolveNeverFails ==
    vpc = "done" =>
        /\ ~vanityRet.threw
        /\ vanityRet.value =
              IF /\ ~IsFailure(vanityRemote)
                 /\ Val(vanityRemote.body).response # None
                 /\ Val(Val(vanityRemote.body).response).success = Some(1)
                 /\ Val(Val(vanityRemote.body).response).steamid \notin {None, Some("")}
              THEN Val(Val(Val(vanityRemote.body).response).steamid)
              ELSE vanityUrl

-----------------------------------------------------------------------------
(* Properties of the config resolver *)

IsNonEmpty(o) == o # None /\ o # Null /\ o # Some("")

\* the value of the first variable of the chain that is set and non-empty
FirstNonEmptyEnv(names) ==
    IF \E i \in 1..Len(names) : IsNonEmpty(env[names[i]])
    THEN env[names[CHOOSE i \in 1..Len(names) :
                 /\ IsNonEmpty(env[names[i]])
                 /\ \A j \in 1..(i-1) : ~IsNonEmpty(env[names[j]])]]
    ELSE None

\* a stored field as getConfig reads it: None when there is no row or a NULL
StoredField(table, f) ==
    IF table = None \/ Val(table)[f] = Null THEN None ELSE Val(table)[f]

\* C7: every field getConfig returns is the stored value when that is present
\* and non-empty, and the stored value is kept; an environment value is used
\* only for a stored field that is absent or empty, and then it is the first
\* non-empty variable of the field's chain.
ConfigPrecedence ==
    [][lastOp' = "getConfig" =>
          LET r == Val(cfgRet')
              stored == IF users = None THEN "" ELSE Val(users).steamId
          IN /\ IF stored # ""
                THEN r.steamId = stored /\ Val(users').steamId = stored
                ELSE r.steamId =
                        IF FirstNonEmptyEnv(SteamIdEnvNames) = None THEN ""
                        ELSE Val(FirstNonEmptyEnv(SteamIdEnvNames))
             /\ IF IsNonEmpty(StoredField(users, "apiKey"))
                THEN /\ r.apiKey = StoredField(users, "apiKey")
                     /\ StoredField(users', "apiKey") = StoredField(users, "apiKey")
                ELSE r.apiKey # StoredField(users, "apiKey") =>
                        r.apiKey = FirstNonEmptyEnv(ApiKeyEnvNames)
             /\ IF IsNonEmpty(StoredField(users, "openRouterApiKey"))
                THEN /\ r.openRouterApiKey = StoredField(users, "openRouterApiKey")
                     /\ StoredField(users', "openRouterApiKey") =
                           StoredField(users, "openRouterApiKey")
                ELSE r.openRouterApiKey # StoredField(users, "openRouterApiKey") =>
                        r.openRouterApiKey = FirstNonEmptyEnv(OpenRouterEnvNames)
      ]_vars

\* getConfig returned the stored steam id and API key although the
\* environment offers other values for both
ConfigPrecedenceWitness ==
    /\ lastOp = "getConfig"
    /\ FirstNonEmptyEnv(SteamIdEnvNames) # None
    /\ FirstNonEmptyEnv(ApiKeyEnvNames) # None
    /\ Val(cfgRet).steamId = "u2"
    /\ Val(cfgRet).apiKey = Some("k2")
    /\ Val(users).steamId = "u2"

\* what getConfig returned is what the users table holds
RowHolds(table, config) ==
    /\ table # None
    /\ Val(table).steamId = config.steamId
    /\ StoredField(table, "apiKey") = config.apiKey
    /\ StoredField(table, "openRouterApiKey") = config.openRouterApiKey

SetConfigStores(before, config, table) ==
    /\ table # None
    /\ Val(table).steamId =
          IF config.steamId # None THEN Val(config.steamId) ELSE before.steamId
    /\ StoredField(table, "apiKey") =
          IF config.apiKey # None THEN config.apiKey ELSE before.apiKey
    /\ StoredField(table, "openRouterApiKey") =
          IF config.openRouterApiKey # None THEN config.openRouterApiKey
          ELSE before.openRouterApiKey

\* C9 as stated: setConfig is a partial update, and a following getConfig
\* returns every value that was set.
SetConfigPartialUpdate ==
    [][/\ lastOp' = "setConfig" =>
             SetConfigStores(EffectiveConfig(users, env), Val(lastSet'), users')
       /\ (lastOp' = "getConfig" /\ lastSet # None) =>
             LET config == Val(lastSet)
                 r == Val(cfgRet')
             IN /\ config.steamId # None => r.steamId = Val(config.steamId)
                /\ config.apiKey # None => r.apiKey = config.apiKey
                /\ config.openRouterApiKey # None =>
                      r.openRouterApiKey = config.openRouterApiKey
      ]_vars

\* C9 as amended: setConfig is a partial update, and a following getConfig
\* returns every value that was set, except that a steamId set to the empty
\* string counts as unset: the next getConfig returns the first non-empty
\* steam id variable of the environment, or "" when there is none.
SetConfigPartialUpdateNonEmpty ==
    [][/\ lastOp' = "setConfig" =>
             SetConfigStores(EffectiveConfig(users, env), Val(lastSet'), users')
       /\ (lastOp' = "getConfig" /\ lastSet # None) =>
             LET config == Val(lastSet)
                 r == Val(cfgRet')
             IN /\ (config.steamId # None /\ config.steamId # Some("")) =>
                      r.steamId = Val(config.steamId)
                /\ (config.steamId = Some("") /\ cfgRet = None) =>
                      r.steamId =
                         IF FirstNonEmptyEnv(SteamIdEnvNames) = None THEN ""
                         ELSE Val(FirstNonEmptyEnv(SteamIdEnvNames))
                /\ config.apiKey # None => r.apiKey = config.apiKey
                /\ config.openRouterApiKey # None =>
                      r.openRouterApiKey = config.openRouterApiKey
      ]_vars

\* setConfig({steamId: "u2"}) over a stored apiKey "k2", then getConfig
PartialUpdateWitness ==
    /\ lastOp = "getConfig"
    /\ lastSet = Some([steamId |-> Some("u2"), apiKey |-> None,
                       openRouterApiKey |-> None])
    /\ Val(users).steamId = "u2"
    /\ Val(users).apiKey = Some("k2")
    /\ Val(cfgRet).steamId = "u2"
    /\ Val(cfgRet).apiKey = Some("k2")

====
